---- MODULE Spec2Model ----
(***************************************************************************)
(* A model of the JiangHuAuto screen-automation driver (src/main.py, the   *)
(* console-API backend, and src/mokuai_fz.py, the command-line backend).   *)
(*                                                                         *)
(* Images are small black-and-white pixel grids (a sequence of rows).      *)
(* cv2.matchTemplate(..., TM_CCOEFF_NORMED) and cv2.minMaxLoc are computed *)
(* exactly on them: a score is kept as a pair <<N, D>> standing for        *)
(* N / sqrt(D), so that comparisons need integers only.                    *)
(*                                                                         *)
(* Time is counted in whole seconds and only time.sleep lets it pass: the  *)
(* emulator commands and the matching are taken to be instantaneous.       *)
(***************************************************************************)
EXTENDS Integers, Sequences, FiniteSets, TLC

VARIABLES
    backend,    \* "console" (src/main.py) or "cli" (src/mokuai_fz.py)
    tdir,       \* the template directory as found at construction
    templates,  \* self.templates: name -> loaded image (or the None imread gave)
    file,       \* the screenshot file at self.screenshot_path
    fresh,      \* whether the last capture command wrote that file
    pc,         \* where the running operation stands ("idle": none runs,
                \* "done": one has just returned)
    mode,       \* the public operation the caller invoked
    wt,         \* wait_for_template's arguments and elapsed time
    trace,      \* what the running operation did so far (taps, sub-calls)
    last,       \* what the last step did / returned
    ended       \* the public operation that just ended, and how

vars == <<backend, tdir, templates, file, fresh, pc, mode, wt, trace, last, ended>>

----------------------------------------------------------------------------
(* Bounds of the model *)

\* Width of the screenshots the matching is explored on; they have two rows.
ScreenW == 3

(* Program constants *)
DefaultInterval == 1
SettleTime == 1
DailyTimeout == 10
BackX == 50
BackY == 50

Pixels == {0, 1}

\* threshold p/q is kept as <<p, q>>; 0.8 is the default of every operation
DefaultThreshold == <<4, 5>>
Thresholds == {<<1, 3>>, DefaultThreshold, <<1, 1>>}

----------------------------------------------------------------------------
(* Images *)

ImgH(img) == Len(img)
ImgW(img) == Len(img[1])

ImagesOf(h, w) == [1..h -> [1..w -> Pixels]]

RECURSIVE SumSeq(_)
SumSeq(s) == IF s = <<>> THEN 0 ELSE Head(s) + SumSeq(Tail(s))

\* the h*w pixels of img whose top-left corner is column x, row y (0-based)
Window(img, x, y, h, w) ==
    [k \in 1..(h * w) |-> img[y + 1 + ((k - 1) \div w)][x + 1 + ((k - 1) % w)]]

Dot(a, b) == SumSeq([k \in 1..Len(a) |-> a[k] * b[k]])

\* n * sum((a - mean a)(b - mean b)), an integer
Cov(a, b) == Len(a) * Dot(a, b) - SumSeq(a) * SumSeq(b)

IsFlat(img) ==
    LET t == Window(img, 0, 0, ImgH(img), ImgW(img)) IN Cov(t, t) = 0

\* One cell of the TM_CCOEFF_NORMED result: N / sqrt(D). A window without
\* variance scores 0.
Score(win, t) ==
    LET d == Cov(t, t) * Cov(win, win)
    IN  IF d = 0 THEN <<0, 1>> ELSE <<Cov(win, t), d>>

\* s1 >= s2 for scores N/sqrt(D)
ScoreGeq(s1, s2) ==
    IF s1[1] >= 0 /\ s2[1] <= 0 THEN TRUE
    ELSE IF s1[1] < 0 /\ s2[1] >= 0 THEN FALSE
    ELSE IF s1[1] >= 0
         THEN s1[1] * s1[1] * s2[2] >= s2[1] * s2[1] * s1[2]
         ELSE s1[1] * s1[1] * s2[2] <= s2[1] * s2[1] * s1[2]

\* (a slip: `max_val > threshold`)
AtLeastStrict(s, thr) ==
    /\ s[1] >= 0
    /\ thr[2] * thr[2] * s[1] * s[1] > thr[1] * thr[1] * s[2]

\* max_val >= threshold
AtLeast(s, thr) ==
    /\ s[1] >= 0
    /\ thr[2] * thr[2] * s[1] * s[1] >= thr[1] * thr[1] * s[2]

\* cv2.matchTemplate for a template that fits: the score of every position,
\* indexed row-major by k = y * cols + x. A template without variance makes
\* the library return 1 everywhere.
ResultCols(img, t) == ImgW(img) - ImgW(t) + 1
ResultRows(img, t) == ImgH(img) - ImgH(t) + 1

MatchResult(img, t) ==
    LET cols == ResultCols(img, t)
        rows == ResultRows(img, t)
        tf   == Window(t, 0, 0, ImgH(t), ImgW(t))
    IN  [k \in 0..(rows * cols - 1) |->
            IF IsFlat(t) THEN <<1, 1>>
            ELSE Score(Window(img, k % cols, k \div cols, ImgH(t), ImgW(t)), tf)]

\* cv2.matchTemplate raises when the template is None, and when it is larger
\* than the image in one dimension and smaller in the other (when it is at
\* least as large in both, the library swaps the two).
Fits(img, t) == ImgH(img) >= ImgH(t) /\ ImgW(img) >= ImgW(t)
MatchRaises(img, tpl) ==
    \/ ~tpl.ok
    \/ /\ ~Fits(img, tpl.img)
       /\ ~Fits(tpl.img, img)

\* cv2.minMaxLoc: the first position, in row-major order, of the maximum
MaxIndex(res) ==
    CHOOSE k \in DOMAIN res :
        /\ \A j \in DOMAIN res : ScoreGeq(res[k], res[j])
        /\ \A j \in DOMAIN res : j < k => ~ScoreGeq(res[j], res[k])

NoPos == [kind |-> "none", x |-> 0, y |-> 0]
RaisedPos == [kind |-> "raise", x |-> 0, y |-> 0]

----------------------------------------------------------------------------
(* The template directory and the screens of the game *)

Names == {"task_button", "task_interface", "daily_task", "claim_reward"}
\* "qq" is the start button main.py looks for; the task listings hold no such file
CallNames == Names \cup {"qq"}

ImageExts == {"png", "jpg", "jpeg"}

\* what cv2.imread returns: an image, or None for a file it cannot decode
Loaded(img) == [ok |-> TRUE, img |-> img]
Unreadable == [ok |-> FALSE, img |-> <<>>]

TemplateImage(n) ==
    CASE n = "task_button"    -> <<<<0, 1>>>>
      [] n = "task_interface" -> <<<<1, 0>>>>
      [] n = "daily_task"     -> <<<<0>>, <<1>>>>
      [] OTHER                -> <<<<1>>, <<0>>>>

GameScreens ==
    { <<<<0, 0, 0>>, <<0, 0, 0>>>>,     \* nothing to see
      <<<<0, 0, 1>>, <<0, 0, 1>>>>,     \* the task button
      <<<<1, 1, 0>>, <<0, 1, 0>>>>,     \* the task list with its daily entry
      <<<<1, 1, 1>>, <<0, 0, 0>>>>,     \* the reward button
      <<<<0, 1, 0>>, <<1, 0, 1>>>> }    \* everything at once

NoFiles == [n \in {} |-> Unreadable]
FullListing == [n \in Names |-> [ext |-> "png", data |-> Loaded(TemplateImage(n))]]
Defects == {"absent", "undecodable", "txt"}
Defective(n, d) ==
    [m \in (IF d = "absent" THEN Names \ {n} ELSE Names) |->
        IF m # n THEN FullListing[m]
        ELSE IF d = "txt" THEN [ext |-> "txt", data |-> Loaded(TemplateImage(m))]
        ELSE [ext |-> "jpg", data |-> Unreadable]]

DriverDirs ==
    {[exists |-> FALSE, files |-> NoFiles], [exists |-> TRUE, files |-> NoFiles],
     [exists |-> TRUE, files |-> FullListing]}
    \cup {[exists |-> TRUE, files |-> Defective(n, d)] : n \in Names, d \in Defects}

\* the templates the matching is explored on: every black-and-white image of
\* these shapes, and two that are too wide for the screenshot
TemplShapes == {<<1, 2>>, <<2, 1>>, <<2, 2>>}
MatchTemplates ==
    UNION {ImagesOf(s[1], s[2]) : s \in TemplShapes}
    \cup {[r \in 1..1 |-> [c \in 1..(ScreenW + 1) |-> IF c = ScreenW + 1 THEN b ELSE 0]] : b \in Pixels}
MatchDirs ==
    {[exists |-> TRUE, files |-> [n \in {"qq"} |-> [ext |-> "png", data |-> Loaded(t)]]] :
        t \in MatchTemplates}

\* (a slip: the extension of the file is not looked at)
LoadTemplatesAnyExt(dir) ==
    IF ~dir.exists THEN NoFiles
    ELSE [n \in DOMAIN dir.files |-> dir.files[n].data]

\* _load_templates
LoadTemplates(dir) ==
    IF ~dir.exists THEN NoFiles
    ELSE [n \in {m \in DOMAIN dir.files : dir.files[m].ext \in ImageExts} |->
            dir.files[n].data]

----------------------------------------------------------------------------
(* find_template *)

\* cv2.matchTemplate(screenshot, template, TM_CCOEFF_NORMED): when the
\* template is at least as large as the image in both dimensions the library
\* swaps the two
MatchTemplate(img, t) ==
    IF Fits(img, t) THEN MatchResult(img, t) ELSE MatchResult(t, img)

\* The result of matchTemplate for every screenshot and template of the
\* model, computed once (@@ makes the table an explicit function instead of
\* a rule applied anew at every use).
ScreenImages == GameScreens \cup ImagesOf(2, ScreenW)
TemplateImages == MatchTemplates \cup {TemplateImage(n) : n \in Names}
MatchTable ==
    [p \in {q \in ScreenImages \X TemplateImages :
                Fits(q[1], q[2]) \/ Fits(q[2], q[1])} |-> MatchTemplate(p[1], p[2])] @@ <<>>

\* cv2.minMaxLoc(result): max_val and max_loc = (x, y)
MinMaxLoc(res, cols) ==
    LET k == MaxIndex(res)
    IN  [val |-> res[k], x |-> k % cols, y |-> k \div cols]

\* find_template(name, threshold) on the loaded templates tpls and the
\* screenshot file f
FindTemplate(tpls, f, name, thr) ==
    IF name \notin DOMAIN tpls THEN NoPos
    ELSE IF f.kind # "img" THEN NoPos
    ELSE IF MatchRaises(f.img, tpls[name]) THEN RaisedPos
    ELSE LET t == tpls[name].img
             m == MinMaxLoc(MatchTable[<<f.img, t>>],
                            IF Fits(f.img, t) THEN ResultCols(f.img, t)
                            ELSE ResultCols(t, f.img))
         IN  IF AtLeast(m.val, thr)
             THEN [kind |-> "pos",
                   x |-> m.x + (ImgW(t) \div 2),
                   y |-> m.y + (ImgH(t) \div 2)]
             ELSE NoPos

----------------------------------------------------------------------------
(* The primitives *)

NoFile == [kind |-> "absent", img |-> <<>>]
BadFile == [kind |-> "bad", img |-> <<>>]
ImgFile(img) == [kind |-> "img", img |-> img]

\* What the emulator does with one capture command: it raises, it ends with
\* a non-zero return code (command line only), it writes the file, or it
\* ends normally without having written anything.
ShotEnvs(b) ==
    {[cmd |-> c, out |-> NoFile] :
        c \in (IF b = "cli" THEN {"raise", "rc_fail", "nowrite"} ELSE {"raise", "nowrite"})}
    \cup {[cmd |-> "write", out |-> f] : f \in {BadFile} \cup {ImgFile(s) : s \in GameScreens}}

TapEnvs(b) == IF b = "cli" THEN {"ok", "raise", "rc_fail"} ELSE {"ok", "raise"}

\* take_screenshot of src/main.py
TakeScreenshotConsole(f, env) ==
    IF env.cmd = "raise"
    THEN [ret |-> FALSE, file |-> f, fresh |-> FALSE, dt |-> 0]
    ELSE LET f2 == IF env.cmd = "write" THEN env.out ELSE f
         IN  [ret |-> f2.kind # "absent", file |-> f2,
              fresh |-> env.cmd = "write", dt |-> SettleTime]

\* take_screenshot of src/mokuai_fz.py
TakeScreenshotCli(f, env) ==
    IF env.cmd = "raise"
    THEN [ret |-> FALSE, file |-> f, fresh |-> FALSE, dt |-> 0]
    ELSE LET f2 == IF env.cmd = "write" THEN env.out ELSE f
             returncode == IF env.cmd = "rc_fail" THEN 1 ELSE 0
         IN  [ret |-> returncode = 0 /\ f2.kind # "absent", file |-> f2,
              fresh |-> env.cmd = "write", dt |-> 0]

TakeScreenshot(b, f, env) ==
    IF b = "cli" THEN TakeScreenshotCli(f, env) ELSE TakeScreenshotConsole(f, env)

Event(ev, name, x, y, ok) == [ev |-> ev, name |-> name, x |-> x, y |-> y, ok |-> ok]

\* click(x, y): the tap reaches the emulator unless the command fails; a
\* failure is caught and logged, and click returns nothing either way
Click(name, x, y, tenv) == <<Event("tap", name, x, y, tenv = "ok")>>

\* swipe(x1, y1, x2, y2)
Swipe(x1, y1, tenv) == <<Event("swipe", "", x1, y1, tenv = "ok")>>

\* (a slip: the result of take_screenshot is not looked at)
ClickTemplateUnguarded(b, tpls, f, name, thr, env, tenv) ==
    LET s == TakeScreenshot(b, f, env)
        p == FindTemplate(tpls, s.file, name, thr)
        r == [ret |-> "false", file |-> s.file, fresh |-> s.fresh, shot |-> s.ret,
              looked |-> TRUE, taps |-> <<>>, pos |-> NoPos]
    IN  IF p.kind = "raise" THEN [r EXCEPT !.ret = "raise", !.pos = p]
        ELSE IF p.kind = "pos"
             THEN [r EXCEPT !.ret = "true", !.pos = p, !.taps = Click(name, p.x, p.y, tenv)]
        ELSE r

\* click_template(name, threshold)
ClickTemplate(b, tpls, f, name, thr, env, tenv) ==
    LET s == TakeScreenshot(b, f, env)
        p == FindTemplate(tpls, s.file, name, thr)
        r == [ret |-> "false", file |-> s.file, fresh |-> s.fresh, shot |-> s.ret,
              looked |-> s.ret, taps |-> <<>>, pos |-> NoPos]
    IN  IF ~s.ret THEN r
        ELSE IF p.kind = "raise" THEN [r EXCEPT !.ret = "raise", !.pos = p]
        ELSE IF p.kind = "pos"
             THEN [r EXCEPT !.ret = "true", !.pos = p, !.taps = Click(name, p.x, p.y, tenv)]
        ELSE r

----------------------------------------------------------------------------
(* The state machine *)

NoWait == [name |-> "", timeout |-> 0, interval |-> 0, thr |-> DefaultThreshold, elapsed |-> 0]
NoLast ==
    [op |-> "none", name |-> "", thr |-> DefaultThreshold, ret |-> "", shot |-> FALSE,
     looked |-> FALSE, taps |-> <<>>, pos |-> NoPos, elapsed |-> 0, timeout |-> 0]
NoEnd == [op |-> "none", ret |-> "", why |-> ""]
Ended(op, ret, why) == [op |-> op, ret |-> ret, why |-> why]

Timeouts == {0, 2}

\* JiangHuAuto.__init__
InitWith(dirs) ==
    /\ backend \in {"console", "cli"}
    /\ tdir \in dirs
    /\ templates = LoadTemplates(tdir)
    /\ fresh = FALSE
    /\ pc = "idle"
    /\ mode = "idle"
    /\ wt = NoWait
    /\ trace = <<>>
    /\ last = NoLast
    /\ ended = NoEnd

Init ==
    /\ InitWith(DriverDirs)
    /\ file = NoFile

\* the matching explored on every screenshot and template
InitMatch ==
    /\ InitWith(MatchDirs)
    /\ backend = "console"
    /\ file \in {ImgFile(s) : s \in ImagesOf(2, ScreenW)}

\* a caller invokes find_template(name, thr)
CallFindTemplate(name, thr) ==
    /\ pc = "idle"
    /\ pc' = "done"
    /\ LET p == FindTemplate(templates, file, name, thr)
       IN  /\ last' = [NoLast EXCEPT !.op = "find_template", !.name = name, !.thr = thr,
                                     !.ret = p.kind, !.pos = p, !.looked = TRUE]
           /\ ended' = Ended("find_template",
                             IF p.kind = "raise" THEN "raise" ELSE "returned", "")
    /\ trace' = <<>>
    /\ UNCHANGED <<backend, tdir, templates, file, fresh, mode, wt>>

\* a caller invokes take_screenshot()
CallTakeScreenshot ==
    /\ pc = "idle"
    /\ pc' = "done"
    /\ \E env \in ShotEnvs(backend) :
        LET s == TakeScreenshot(backend, file, env)
        IN  /\ file' = s.file
            /\ fresh' = s.fresh
            /\ last' = [NoLast EXCEPT !.op = "take_screenshot", !.shot = s.ret,
                                      !.ret = IF s.ret THEN "true" ELSE "false"]
    /\ ended' = Ended("take_screenshot", "returned", "")
    /\ trace' = <<>>
    /\ UNCHANGED <<backend, tdir, templates, mode, wt>>

\* a caller invokes click(x, y)
CallClick(x, y) ==
    /\ pc = "idle"
    /\ pc' = "done"
    /\ \E tenv \in TapEnvs(backend) :
        /\ trace' = Click("", x, y, tenv)
        /\ last' = [NoLast EXCEPT !.op = "click", !.taps = trace']
    /\ ended' = Ended("click", "returned", "")
    /\ UNCHANGED <<backend, tdir, templates, file, fresh, mode, wt>>

\* a caller invokes swipe(x1, y1, x2, y2)
CallSwipe(x1, y1) ==
    /\ pc = "idle"
    /\ pc' = "done"
    /\ \E tenv \in TapEnvs(backend) :
        /\ trace' = Swipe(x1, y1, tenv)
        /\ last' = [NoLast EXCEPT !.op = "swipe", !.taps = trace']
    /\ ended' = Ended("swipe", "returned", "")
    /\ UNCHANGED <<backend, tdir, templates, file, fresh, mode, wt>>

\* one execution of click_template(name, thr) with result r
ClickTemplateDone(name, thr, r) ==
    /\ file' = r.file
    /\ fresh' = r.fresh
    /\ last' = [NoLast EXCEPT !.op = "click_template", !.name = name, !.thr = thr,
                              !.ret = r.ret, !.shot = r.shot, !.looked = r.looked,
                              !.taps = r.taps, !.pos = r.pos]

\* a caller invokes click_template(name, thr)
CallClickTemplate(name, thr) ==
    /\ pc = "idle"
    /\ pc' = "done"
    /\ \E env \in ShotEnvs(backend), tenv \in TapEnvs(backend) :
        LET r == ClickTemplate(backend, templates, file, name, thr, env, tenv)
        IN  /\ ClickTemplateDone(name, thr, r)
            /\ trace' = r.taps
            /\ ended' = Ended("click_template",
                              IF r.ret = "raise" THEN "raise" ELSE "returned", "")
    /\ UNCHANGED <<backend, tdir, templates, mode, wt>>

\* an exception leaves run_daily_tasks: main_loop catches it, another caller sees it
RunRaises ==
    /\ pc' = IF mode = "main" THEN "ml_caught_exc" ELSE "done"
    /\ mode' = IF mode = "main" THEN mode ELSE "idle"
    /\ ended' = Ended("run_daily_tasks", "raise", "")

\* wait_for_template returns ret ("true" / "false")
WaitReturns(ret) ==
    /\ last' = [NoLast EXCEPT !.op = "wait_for_template", !.name = wt.name, !.ret = ret,
                              !.elapsed = wt.elapsed, !.timeout = wt.timeout,
                              !.thr = wt.thr]
    /\ wt' = NoWait
    /\ IF mode = "wait"
       THEN /\ pc' = "done"
            /\ mode' = "idle"
            /\ ended' = Ended("wait_for_template", "returned", "")
            /\ trace' = trace
       ELSE /\ pc' = IF ret = "true" THEN "rd_daily" ELSE "rd_back"
            /\ mode' = mode
            /\ ended' = NoEnd
            /\ trace' = Append(trace, Event("wait_ret", wt.name, 0, 0, ret = "true"))

\* (a slip: `<=` for `<`)
LoopCondInclusive(w) == w.elapsed <= w.timeout

\* `while time.time() - start_time < timeout`
LoopCond(w) == w.elapsed < w.timeout

\* a caller invokes wait_for_template(name, timeout) (interval and threshold
\* at their defaults)
CallWait(name, timeout) ==
    /\ pc = "idle"
    /\ pc' = "wait"
    /\ mode' = "wait"
    /\ wt' = [name |-> name, timeout |-> timeout, interval |-> DefaultInterval,
              thr |-> DefaultThreshold, elapsed |-> 0]
    /\ trace' = <<>>
    /\ last' = NoLast
    /\ ended' = NoEnd
    /\ UNCHANGED <<backend, tdir, templates, file, fresh>>

\* one round of the polling loop of wait_for_template
WaitIter ==
    /\ pc = "wait"
    /\ LoopCond(wt)
    /\ \E env \in ShotEnvs(backend) :
        LET s == TakeScreenshot(backend, file, env)
            p == IF s.ret THEN FindTemplate(templates, s.file, wt.name, wt.thr) ELSE NoPos
        IN  /\ file' = s.file
            /\ fresh' = s.fresh
            /\ CASE p.kind = "pos" -> WaitReturns("true")
                 [] p.kind = "raise" ->
                        /\ last' = NoLast
                        /\ wt' = NoWait
                        /\ trace' = trace
                        /\ IF mode = "wait"
                           THEN /\ pc' = "done"
                                /\ mode' = "idle"
                                /\ ended' = Ended("wait_for_template", "raise", "")
                           ELSE RunRaises
                 [] OTHER ->
                        /\ wt' = [wt EXCEPT !.elapsed = @ + s.dt + wt.interval]
                        /\ last' = NoLast
                        /\ ended' = NoEnd
                        /\ UNCHANGED <<pc, mode, trace>>
    /\ UNCHANGED <<backend, tdir, templates>>

\* the loop condition of wait_for_template fails: the wait timed out
WaitTimeout ==
    /\ pc = "wait"
    /\ ~LoopCond(wt)
    /\ WaitReturns("false")
    /\ UNCHANGED <<backend, tdir, templates, file, fresh>>

\* a caller invokes run_daily_tasks()
CallRunDaily ==
    /\ pc = "idle"
    /\ pc' = "rd_start"
    /\ mode' = "daily"
    /\ trace' = <<>>
    /\ last' = NoLast
    /\ ended' = NoEnd
    /\ UNCHANGED <<backend, tdir, templates, file, fresh, wt>>

\* `if self.click_template(name):` at step `at` of run_daily_tasks
RdClick(at, name, next) ==
    /\ pc = at
    /\ \E env \in ShotEnvs(backend), tenv \in TapEnvs(backend) :
        LET r == ClickTemplate(backend, templates, file, name, DefaultThreshold, env, tenv)
        IN  /\ ClickTemplateDone(name, DefaultThreshold, r)
            /\ trace' = trace \o r.taps
                        \o <<Event("click_template", name, 0, 0, r.ret = "true")>>
            /\ IF r.ret = "raise"
               THEN RunRaises
               ELSE /\ pc' = IF r.ret = "true" THEN next ELSE "rd_back"
                    /\ ended' = NoEnd
                    /\ mode' = mode
    /\ UNCHANGED <<backend, tdir, templates, wt>>

RdTaskButton == RdClick("rd_start", "task_button", "rd_wait")

\* `if self.wait_for_template("task_interface", timeout=10):`
RdCallWait ==
    /\ pc = "rd_wait"
    /\ pc' = "wait"
    /\ wt' = [name |-> "task_interface", timeout |-> DailyTimeout,
              interval |-> DefaultInterval, thr |-> DefaultThreshold, elapsed |-> 0]
    /\ trace' = Append(trace, Event("wait", "task_interface", 0, 0, TRUE))
    /\ last' = NoLast
    /\ ended' = NoEnd
    /\ UNCHANGED <<backend, tdir, templates, file, fresh, mode>>

RdDailyTask == RdClick("rd_daily", "daily_task", "rd_claim")

RdClaimReward == RdClick("rd_claim", "claim_reward", "rd_back")

\* `self.click(50, 50)`, which ends run_daily_tasks
RdBack ==
    /\ pc = "rd_back"
    /\ \E tenv \in TapEnvs(backend) :
        trace' = trace \o Click("back", BackX, BackY, tenv)
    /\ last' = [NoLast EXCEPT !.op = "click", !.taps = <<trace'[Len(trace')]>>]
    /\ ended' = Ended("run_daily_tasks", "returned", "")
    /\ pc' = IF mode = "main" THEN "ml_sleep" ELSE "done"
    /\ mode' = IF mode = "main" THEN mode ELSE "idle"
    /\ UNCHANGED <<backend, tdir, templates, file, fresh, wt>>

\* a caller invokes main_loop()
CallMainLoop ==
    /\ pc = "idle"
    /\ pc' = "rd_start"
    /\ mode' = "main"
    /\ trace' = <<>>
    /\ last' = NoLast
    /\ ended' = NoEnd
    /\ UNCHANGED <<backend, tdir, templates, file, fresh, wt>>

\* (a slip: no `while True`, main_loop returns after one round)
MainLoopOnce ==
    /\ pc = "ml_sleep"
    /\ pc' = "done"
    /\ mode' = "idle"
    /\ last' = NoLast
    /\ ended' = Ended("main_loop", "returned", "")
    /\ UNCHANGED <<backend, tdir, templates, file, fresh, wt, trace>>

\* `time.sleep(interval)` of main_loop, and the next round of `while True`
MainLoopSleep ==
    /\ pc = "ml_sleep"
    /\ pc' = "rd_start"
    /\ trace' = <<>>
    /\ last' = NoLast
    /\ ended' = NoEnd
    /\ UNCHANGED <<backend, tdir, templates, file, fresh, mode, wt>>

\* KeyboardInterrupt while main_loop is inside its try block
Interrupt ==
    /\ mode = "main"
    /\ pc \notin {"idle", "done", "ml_caught_int", "ml_caught_exc"}
    /\ pc' = "ml_caught_int"
    /\ wt' = NoWait
    /\ last' = NoLast
    /\ ended' = NoEnd
    /\ UNCHANGED <<backend, tdir, templates, file, fresh, mode, trace>>

\* the except clauses of main_loop, and its return
MainLoopReturn ==
    /\ pc \in {"ml_caught_int", "ml_caught_exc"}
    /\ pc' = "done"
    /\ mode' = "idle"
    /\ ended' = Ended("main_loop", "returned",
                      IF pc = "ml_caught_int" THEN "interrupt" ELSE "exception")
    /\ last' = NoLast
    /\ UNCHANGED <<backend, tdir, templates, file, fresh, wt, trace>>

\* the operation has returned to its caller, who may go on to call another
Return ==
    /\ pc = "done"
    /\ pc' = "idle"
    /\ mode' = "idle"
    /\ trace' = <<>>
    /\ last' = NoLast
    /\ ended' = NoEnd
    /\ UNCHANGED <<backend, tdir, templates, file, fresh, wt>>

Next ==
    \/ \E n \in CallNames, thr \in Thresholds : CallFindTemplate(n, thr)
    \/ CallTakeScreenshot
    \/ CallClick(BackX, BackY)
    \/ CallSwipe(BackX, BackY)
    \/ \E n \in CallNames, thr \in Thresholds : CallClickTemplate(n, thr)
    \/ \E n \in CallNames, t \in Timeouts : CallWait(n, t)
    \/ WaitIter
    \/ WaitTimeout
    \/ CallRunDaily
    \/ RdTaskButton
    \/ RdCallWait
    \/ RdDailyTask
    \/ RdClaimReward
    \/ RdBack
    \/ CallMainLoop
    \/ MainLoopSleep
    \/ Interrupt
    \/ MainLoopReturn
    \/ Return

NextMatch == \E thr \in Thresholds : CallFindTemplate("qq", thr)

Spec == Init /\ [][Next]_vars

\* The steps of an operation that has been called. Every sleep and every
\* command ends, so the running operation always takes its next step; the
\* caller need not call again, and nobody need interrupt.
Running ==
    \/ WaitIter
    \/ WaitTimeout
    \/ RdTaskButton
    \/ RdCallWait
    \/ RdDailyTask
    \/ RdClaimReward
    \/ RdBack
    \/ MainLoopSleep
    \/ MainLoopReturn

FairSpec == Spec /\ WF_vars(Running)

SpecMatch == InitMatch /\ [][NextMatch]_vars

----------------------------------------------------------------------------
(* Properties of find_template (checked on every screenshot and template)  *)

\* a find_template call has just returned, having matched a template that
\* fits the screenshot
Matched ==
    /\ last.op = "find_template"
    /\ last.name \in DOMAIN templates
    /\ file.kind = "img"
    /\ templates[last.name].ok
    /\ Fits(file.img, templates[last.name].img)

TheTemplate == templates[last.name].img
Offsets ==
    {<<x, y>> : x \in 0..(ImgW(file.img) - ImgW(TheTemplate)),
                y \in 0..(ImgH(file.img) - ImgH(TheTemplate))}
ScoreAt(o) == MatchTable[<<file.img, TheTemplate>>][o[2] * ResultCols(file.img, TheTemplate) + o[1]]
CenterOf(o) ==
    [kind |-> "pos", x |-> o[1] + (ImgW(TheTemplate) \div 2),
                     y |-> o[2] + (ImgH(TheTemplate) \div 2)]
\* the score s reaches the threshold p/q: s >= p/q
Reaches(s, thr) == s[1] >= 0 /\ (s[1] * thr[2]) * (s[1] * thr[2]) >= thr[1] * thr[1] * s[2]
IsBest(o) == \A o2 \in Offsets : ScoreGeq(ScoreAt(o), ScoreAt(o2))
StrictlyBest(o) == \A o2 \in Offsets \ {o} : ~ScoreGeq(ScoreAt(o2), ScoreAt(o))
ExactCopyAt(o) ==
    Window(file.img, o[1], o[2], ImgH(TheTemplate), ImgW(TheTemplate))
        = Window(TheTemplate, 0, 0, ImgH(TheTemplate), ImgW(TheTemplate))
Near(a, b) == a - b \in {-1, 0, 1}

\* C6 (as amended): find_template returns the center (x + w div 2,
\* y + h div 2) of a best-scoring position (x, y) if and only if the best
\* score is >= threshold (equality included), and no match otherwise; for an
\* exact copy of a non-constant template at an offset that scores strictly
\* higher than every other position, the returned point is that offset's
\* center.
C6_BestMatchCenter ==
    Matched =>
        /\ last.ret \in {"pos", "none"}
        /\ (last.ret = "pos") <=> (\E o \in Offsets : Reaches(ScoreAt(o), last.thr))
        /\ last.ret = "pos" =>
              \E o \in Offsets :
                  /\ IsBest(o)
                  /\ Reaches(ScoreAt(o), last.thr)
                  /\ last.pos = CenterOf(o)
        /\ \A o \in Offsets :
              (ExactCopyAt(o) /\ ~IsFlat(TheTemplate) /\ StrictlyBest(o))
                  => last.pos = CenterOf(o)

\* C6, witness: a template of even width and height 2 matched with a best
\* score equal to the threshold of 1/3, away from the top-left corner
C6_Witness ==
    /\ Matched
    /\ last.ret = "pos"
    /\ last.thr = <<1, 3>>
    /\ ImgH(TheTemplate) = 2 /\ ImgW(TheTemplate) = 2
    /\ \A o \in Offsets :
          /\ Reaches(ScoreAt(o), <<1, 3>>) => 9 * ScoreAt(o)[1] * ScoreAt(o)[1] = ScoreAt(o)[2]
          /\ IsBest(o) => o[1] > 0

\* C6, witness of the exact-copy case: an exact copy that is the only best
\* position, not at the top-left corner
C6_WitnessExactCopy ==
    /\ Matched
    /\ \E o \in Offsets :
          ExactCopyAt(o) /\ ~IsFlat(TheTemplate) /\ StrictlyBest(o) /\ o[1] > 0

\* C6 (as claimed): for an exact copy of the (non-constant) template at a
\* known offset the returned point is that offset's center within one pixel
C6_ExactCopyWithinOnePixel ==
    Matched =>
        \A o \in Offsets :
            (ExactCopyAt(o) /\ ~IsFlat(TheTemplate)) =>
                /\ last.ret = "pos"
                /\ Near(last.pos.x, CenterOf(o).x)
                /\ Near(last.pos.y, CenterOf(o).y)

----------------------------------------------------------------------------
(* Properties of the driver *)

ClickTemplateRan == last.op = "click_template"

\* C1: whenever take_screenshot fails inside click_template, click_template
\* returns false without having looked for the template or tapped.
C1_NoClickOnFailedCapture ==
    (ClickTemplateRan /\ ~last.shot) =>
        /\ last.ret = "false"
        /\ last.taps = <<>>
        /\ ~last.looked

\* C1, witness: the capture failed although an earlier screenshot, on which
\* the template would have been found, is still on disk
C1_Witness ==
    /\ ClickTemplateRan
    /\ ~last.shot
    /\ FindTemplate(templates, file, last.name, last.thr).kind = "pos"

\* C3 (as claimed): whenever click_template returns true, a tap at the center
\* of the match reached the emulator during the call.
C3_TrueOnlyIfTapped ==
    (ClickTemplateRan /\ last.ret = "true") =>
        /\ Len(last.taps) = 1
        /\ last.taps[1].ok
        /\ last.taps[1].x = last.pos.x /\ last.taps[1].y = last.pos.y

\* C4 (as claimed): no public operation ends by raising.
C4_NoExceptionEscapes == ended.ret # "raise"

RunEnded == ended.op = "run_daily_tasks"
Taps == {i \in DOMAIN trace : trace[i].ev = "tap"}
BackTaps == {i \in Taps : trace[i].x = BackX /\ trace[i].y = BackY}
EventsOf(ev, name) == {i \in DOMAIN trace : trace[i].ev = ev /\ trace[i].name = name}

\* C2 (as claimed): every run of run_daily_tasks ends with exactly one tap at
\* (50, 50), its last input action.
C2_BackTapEndsEveryRun ==
    RunEnded =>
        /\ Cardinality(BackTaps) = 1
        /\ \A i \in Taps : \A b \in BackTaps : i <= b

\* each step of run_daily_tasks is attempted only after the one before it
\* succeeded, and each template is tapped at most once, in the script's order
StepsGated ==
    /\ \A i \in EventsOf("wait", "task_interface") :
          \E j \in EventsOf("click_template", "task_button") : j < i /\ trace[j].ok
    /\ \A i \in EventsOf("click_template", "daily_task") :
          \E j \in EventsOf("wait_ret", "task_interface") : j < i /\ trace[j].ok
    /\ \A i \in EventsOf("click_template", "claim_reward") :
          \E j \in EventsOf("click_template", "daily_task") : j < i /\ trace[j].ok
    /\ \A n \in Names \cup {"back"} : Cardinality(EventsOf("tap", n)) <= 1
    /\ \A i \in EventsOf("tap", "task_button") : \A j \in Taps : i <= j
    /\ \A i \in EventsOf("tap", "daily_task") :
          \A j \in EventsOf("tap", "claim_reward") \cup EventsOf("tap", "back") : i < j
    /\ \A i \in EventsOf("tap", "claim_reward") : \A j \in EventsOf("tap", "back") : i < j

\* C8 (as claimed): the steps of run_daily_tasks are gated as above, and a
\* run issues between 1 and 4 taps in total.
C8_GatedOneToFourTaps ==
    /\ mode \in {"daily", "main"} => StepsGated
    /\ RunEnded => (StepsGated /\ Cardinality(Taps) \in 1..4)

\* C10 (as claimed): whenever take_screenshot returns true, the screenshot
\* file was written by that very capture.
C10_CaptureIsFresh ==
    (last.op \in {"take_screenshot", "click_template"} /\ last.shot) => fresh

\* a template never loaded: no directory, or no image file of that name in it
NeverLoaded(n) ==
    \/ ~tdir.exists
    \/ n \notin DOMAIN tdir.files
    \/ tdir.files[n].ext \notin ImageExts

\* C7: for a template never loaded, find_template finds nothing, whatever the
\* screenshot file; click_template and wait_for_template return false and
\* tap nothing.
C7_NeverLoadedNeverFound ==
    (last.op \in {"find_template", "click_template", "wait_for_template"}
        /\ NeverLoaded(last.name)) =>
        /\ last.ret \in {"none", "false"}
        /\ last.taps = <<>>
        /\ ended.ret # "raise"

\* C7, witness: no template directory at construction, a readable
\* screenshot on disk, and a task template looked for
C7_Witness ==
    /\ last.op = "find_template"
    /\ ~tdir.exists
    /\ last.name = "task_button"
    /\ file.kind = "img"

C9_MainLoopRepeats ==
    /\ [][(mode = "main" /\ mode' # "main") =>
             (pc \in {"ml_caught_int", "ml_caught_exc"} /\ ended'.ret = "returned")]_vars
    /\ [][(pc # "ml_caught_exc" /\ pc' = "ml_caught_exc") => ended'.ret = "raise"]_vars
    /\ [](mode = "main" =>
             <>(mode # "main" \/ (RunEnded /\ ended.ret = "returned")))

\* C9, witness: main_loop has caught an exception out of run_daily_tasks and
\* returned
C9_Witness ==
    /\ ended.op = "main_loop"
    /\ ended.why = "exception"
    /\ ended.ret = "returned"

====
